---- MODULE Spec2Model ----
\* Break orchestration of breathe-pulse: the zustand store useAppStore
\* (frontend/src/utils/useAppStore.ts), the App page that wires sensor samples
\* and buttons to it (unnamed/part_002) and the break components that report
\* outcomes (BreathingExercise, StretchingExercise, PuzzleBreak).
\*
\* Numbers.  currentStressLevel is a JavaScript double in the code.  Spec and
\* the specifications built on its actions keep it as an exact decimal, the
\* integer currentStressLevel = value * Scale, and ingest a sample only while
\* the exact result still fits that scale.  SpecDouble keeps it as the double
\* itself, computed with the roundings of IEEE 754 binary64.
\* Time.  Date.now() is the clock `now`, counted in ticks of TickMs
\* milliseconds; it starts above 0, as every real Date.now() does.
EXTENDS Integers, Sequences, FiniteSets, TLC

VARIABLES
    \* ---- useAppStore state
    currentStressLevel,          \* smoothed level, scaled by Scale (SpecDouble: a double)
    isUserActive,
    lastBreakTimestamp,          \* NoTimestamp or a clock value
    breakSuggestionActive,
    currentBreakSuggestion,      \* Null or an id of breakTypes
    dynamicCoachingMessage,      \* Null, Description(id) or CoachingText (strings)
    isFetchingCoachingMessage,
    isFeedbackChatOpen,
    feedbackChatHistory,         \* sequence of [role, content]
    isFeedbackLoading,
    \* ---- App component state
    isBreakSelectionOpen,
    isBreathingExerciseOpen,
    isStretchingExerciseOpen,
    isPuzzleBreakOpen,
    \* ---- the companion chat: useAppStore and the state of ChatWithCoach
    isCompanionChatOpen,
    coachMessages,               \* messages: sequence of [role, turn, sentiment]
    coachIsLoading,              \* isLoading
    coachRequests,               \* turns whose handleSubmit is suspended at its await
    coachTurns,                  \* handleSubmit calls that sent a request so far
    \* ---- FeedbackChatDialog
    feedbackRequests,            \* handleSendMessage calls suspended at their await
    feedbackTurns,               \* handleSendMessage calls that sent a request so far
    \* ---- the Firestore subscriptions
    memoryStore,                 \* useMemoryStore: [isLoading, error, unsubscribe]
    companionStore,              \* useCompanionStore: the habit and mood fields
    firestoreListeners,          \* per collection, the listeners attached
    listenersCreated,            \* listeners attached so far
    \* ---- the break and calibration components
    calibration,                 \* PostureCalibration: [step, countdown, timeouts]
    remainingTime,               \* BreathingExercise: seconds left
    currentStretchIndex,         \* StretchingExercise: the stretch shown
    currentStretchDuration,      \* StretchingExercise: its duration
    timeLeft,                    \* StretchingExercise: seconds left of it
    framesCaptured,              \* WebcamDetector: frames sent for analysis
    analysesInFlight,            \* WebcamDetector: the frames not yet answered
    lastDelivered,               \* the frame whose result onPoseData got last
    \* ---- environment
    now,                         \* Date.now(), in ticks
    pending,                     \* showBreakSuggestion calls suspended at their await
    forcedCalls,                 \* number of showBreakSuggestion(true) calls so far
    samples,                     \* the samples delivered so far, where they are recorded
    preferenceModel,             \* the user's scores per break, as the storage holds them
    \* ---- observers (written by every action, read by no guard)
    lastOp,                      \* the handler that ran last, and what it did
    cooldownUntil,               \* t + max(c, 15 min) of the latest dismissBreakSuggestion(c),
                                 \* while that time is still ahead (0: none ahead)
    sessionRestUntil             \* t + 15 min of the latest session end, while still ahead

storeVars == <<currentStressLevel, isUserActive, lastBreakTimestamp,
               breakSuggestionActive, currentBreakSuggestion,
               dynamicCoachingMessage, isFetchingCoachingMessage,
               isFeedbackChatOpen, feedbackChatHistory, isFeedbackLoading>>

appVars == <<isBreakSelectionOpen, isBreathingExerciseOpen,
             isStretchingExerciseOpen, isPuzzleBreakOpen>>

coachVars == <<isCompanionChatOpen, coachMessages, coachIsLoading,
               coachRequests, coachTurns>>

\* The state outside the break orchestration.
feedbackVars == <<feedbackRequests, feedbackTurns>>

listenerVars == <<memoryStore, companionStore, firestoreListeners, listenersCreated>>

stretchingVars == <<currentStretchIndex, currentStretchDuration, timeLeft>>

detectorVars == <<framesCaptured, analysesInFlight, lastDelivered>>

componentVars == <<calibration, remainingTime, stretchingVars, detectorVars>>

sideVars == <<coachVars, feedbackVars, listenerVars, componentVars>>

vars == <<sideVars, storeVars, appVars, now, pending, forcedCalls, samples, preferenceModel, lastOp,
          cooldownUntil, sessionRestUntil>>

\* ------------------------------------------------------------------ bounds
\* Decimal places kept for the smoothed level.
Digits == 3
\* Last value of the clock.
MaxTime == 5
\* Coaching fetches that may be outstanding at once.
MaxInFlight == 2
\* Clicks on 'Trigger Break (Test)'.
MaxForced == 1
\* Samples whose history is recorded.
MaxSamples == 4
\* Messages sent in the companion chat.
MaxTurns == 3
\* Messages sent in the feedback dialog.
MaxFeedbackTurns == 2
\* Firestore listeners attached in all.
MaxListeners == 3
\* Positioning timeouts of the calibration pending at once.
MaxTimeouts == 2
\* Frames the WebcamDetector captures.
MaxFrames == 4

\* --------------------------------------------------------------- constants
Null == "null"

\* unsubscribe, habitListenerUnsubscribe, moodListenerUnsubscribe: null.  A
\* handle that is not null is the number of the listener it detaches.
NoListener == 0

\* The collections listened to: users/{uid}/companionMemory, the habits and
\* the mood entries.
Collections == {"memories", "habits", "moods"}

\* userId arguments: none, a signed-in user.
UserIds == {"", "user"}

\* BreathingExercise: durationSeconds, which App leaves at its default.
durationSeconds == 60

\* StretchingExercise: the stretches, by index.
stretches ==
    [i \in 0..2 |-> [id |-> i + 1, duration |-> IF i = 2 THEN 30 ELSE 20]]

totalStretches == 3

\* PostureCalibration: seconds the posture is held.
CALIBRATION_HOLD_DURATION == 30

\* PostureCalibration: seconds between 'Start Calibration' and the hold.
PositioningSeconds == 3

\* lastBreakTimestamp: null.  The code tests the field for truthiness, which
\* null and 0 both fail.
NoTimestamp == 0

RECURSIVE Pow10(_)
Pow10(n) == IF n = 0 THEN 1 ELSE 10 * Pow10(n - 1)

Scale == Pow10(Digits)

\* One tick of the clock, in milliseconds (five minutes).
TickMs == 5 * 60 * 1000

\* SMOOTHING_FACTOR = 0.1, as the fraction SmoothingNum / SmoothingDen.
SmoothingNum == 1
SmoothingDen == 10

MIN_BREAK_INTERVAL_MS == 15 * 60 * 1000
STRESS_THRESHOLD == 21

\* The catalog, by id.
breakTypes == <<"breathing", "stretch", "eye_rest", "mindful_moment", "puzzle">>

BreakIds == {breakTypes[i] : i \in DOMAIN breakTypes}

\* Values of Math.floor(Math.random() * breakTypes.length) + 1 that are tried:
\* the first and the last entry.
RandomIndexes == {1, Len(breakTypes)}

\* breakTypes[i].description of the entry with this id.
Description(id) == "description of " \o id

\* data.message of a successful generate_coaching_message response.
CoachingText == "coaching message"

\* The choices of BreakSelectionDialog.
BreakChoice == {"stretching", "breathing", "puzzle"}

\* Raw stress levels the sensor reports (unscaled): a sustained high reading.
\* A sample may also repeat the current smoothed level (see Next).
RawLevels == {90}

\* Raw stress levels of the recorded sample streams (unscaled): none, low, at
\* the threshold, high.
StreamLevels == {0, 5, 21, 90}

\* Raw stress levels of the streams followed in double arithmetic: a reading
\* held at the threshold.
DoubleLevels == {STRESS_THRESHOLD}

\* stressLevel values of the analyses that succeed.
AnalysisLevels == {90}

\* How brain.analyze_frame can end: an OK response, another response, an
\* error thrown.
AnalysisOutcomes == {"ok", "notOk", "throws"}

\* cooldownMinutes arguments given to dismissBreakSuggestion.
CooldownMinutes == {5, 30}

\* How a coaching fetch can end: a message, no auth token, a rejected call, an
\* error response of the service.
FetchOutcomes == {"ok", "noToken", "throws", "errorResponse"}

\* The generated HTTP client rejects the request promise unless the response is OK.
BrainRequestRejects(outcome) == outcome \in {"throws", "errorResponse"}

\* ----------------------------------------------------------------- helpers
Max(a, b) == IF a >= b THEN a ELSE b

\* f[0] + ... + f[n].
RECURSIVE SumTo(_, _)
SumTo(f, n) == IF n = 0 THEN f[0] ELSE f[n] + SumTo(f, n - 1)

RECURSIVE Pow(_, _)
Pow(b, n) == IF n = 0 THEN 1 ELSE b * Pow(b, n - 1)

\* SMOOTHING_FACTOR * raw + (1 - SMOOTHING_FACTOR) * current, on scaled values.
SmoothNumerator(raw, current) ==
    SmoothingNum * raw + (SmoothingDen - SmoothingNum) * current

Smoothed(raw, current) == SmoothNumerator(raw, current) \div SmoothingDen

\* The exact result has at most Digits decimal places.
Representable(raw, current) == SmoothNumerator(raw, current) % SmoothingDen = 0

\* timeSinceLastBreak > MIN_BREAK_INTERVAL_MS, Infinity when there was no break.
IntervalElapsed(last, t) ==
    IF last = NoTimestamp THEN TRUE ELSE (t - last) * TickMs > MIN_BREAK_INTERVAL_MS

\* shouldShowNormally without its isUserActive conjunct.
ShouldShowNormally_NoPresence(active, user, level, last, t) ==
    /\ ~active
    /\ level > STRESS_THRESHOLD * Scale
    /\ IntervalElapsed(last, t)

\* shouldShowNormally of showBreakSuggestion.
ShouldShowNormally(active, user, level, last, t) ==
    /\ ~active
    /\ user
    /\ level > STRESS_THRESHOLD * Scale
    /\ IntervalElapsed(last, t)

\* coachingMessage when the catch block loses the default description.
CoachingMessageFor_NoFallback(outcome, sel) ==
    IF outcome = "ok" THEN CoachingText ELSE Null

\* coachingMessage at the final set(): data.message, or the static description
\* kept when the try block threw.
CoachingMessageFor(outcome, sel) ==
    IF outcome = "noToken" \/ BrainRequestRejects(outcome)
    THEN Description(sel)
    ELSE CoachingText

\* Every outstanding fetch has now seen the session end.
MarkStale(p) == [i \in DOMAIN p |-> [p[i] EXCEPT !.stale = TRUE]]

RemoveAt(s, i) == [j \in 1..(Len(s) - 1) |-> IF j < i THEN s[j] ELSE s[j + 1]]

AssistantMessage(content) == [role |-> "assistant", content |-> content]

\* Scores of the user's PreferenceModel: mean in hundredths, and tries.
Score(mean, tries) == [mean |-> mean, tries |-> tries]

\* No break was ever tried.
EmptyModel == [id \in BreakIds |-> Score(0, 0)]

\* Models the storage may hold when the page loads: that of a new user, and
\* that of a user who skipped one breathing break (reward -0.5).
PreferenceModels ==
    {EmptyModel, [EmptyModel EXCEPT !["breathing"] = Score(-50, 1)]}

\* ------------------------------------ the arithmetic of a JavaScript number
\* IEEE 754 binary64, round to nearest, ties to even.  All values met here are
\* normal numbers or 0, so exponents are unbounded and 0 has one sign.
\* Natural numbers of any size: sequences of limbs of LimbBits bits, lowest first.
LimbBits == 14
MantissaBits == 53
LimbBase == Pow(2, LimbBits)

Limb(x, i) == IF i \in 1..Len(x) THEN x[i] ELSE 0

RECURSIVE Trim(_)
Trim(x) == IF x # <<>> /\ x[Len(x)] = 0 THEN Trim(SubSeq(x, 1, Len(x) - 1)) ELSE x

\* The number whose limbs, before carries, are cols.
RECURSIVE Carry(_, _)
Carry(cols, c) ==
    IF cols = <<>>
    THEN IF c = 0 THEN <<>> ELSE <<c % LimbBase>> \o Carry(<<>>, c \div LimbBase)
    ELSE <<(Head(cols) + c) % LimbBase>>
             \o Carry(Tail(cols), (Head(cols) + c) \div LimbBase)

BigOfInt(n) == Carry(<<n>>, 0)

BigAdd(x, y) ==
    Trim(Carry([i \in 1..Max(Len(x), Len(y)) |-> Limb(x, i) + Limb(y, i)], 0))

\* x - y, for x >= y.
RECURSIVE Borrow(_, _, _, _)
Borrow(x, y, i, b) ==
    IF i > Len(x) THEN <<>>
    ELSE LET t == x[i] - Limb(y, i) - b
         IN  <<IF t < 0 THEN t + LimbBase ELSE t>>
                 \o Borrow(x, y, i + 1, IF t < 0 THEN 1 ELSE 0)

BigSub(x, y) == Trim(Borrow(x, y, 1, 0))

RECURSIVE Column(_, _, _, _)
Column(x, y, k, i) ==
    IF i = 0 THEN 0 ELSE x[i] * Limb(y, k - i + 1) + Column(x, y, k, i - 1)

\* x * y, for x of at most four limbs.
BigMul(x, y) ==
    Trim(Carry([k \in 1..(Len(x) + Len(y)) |-> Column(x, y, k, Len(x))], 0))

BigGreater(x, y) ==
    \E i \in 1..Max(Len(x), Len(y)) :
        /\ Limb(x, i) > Limb(y, i)
        /\ \A j \in (i + 1)..Max(Len(x), Len(y)) : Limb(x, j) = Limb(y, j)

RECURSIVE BitLenOfLimb(_)
BitLenOfLimb(v) == IF v = 0 THEN 0 ELSE 1 + BitLenOfLimb(v \div 2)

BitLen(x) ==
    IF Trim(x) = <<>> THEN 0
    ELSE (Len(Trim(x)) - 1) * LimbBits + BitLenOfLimb(Trim(x)[Len(Trim(x))])

Bit(x, i) == (Limb(x, i \div LimbBits + 1) \div Pow(2, i % LimbBits)) % 2

ShiftLeft(x, s) ==
    Trim([i \in 1..(s \div LimbBits) |-> 0]
            \o Carry([i \in 1..Len(x) |-> x[i] * Pow(2, s % LimbBits)], 0))

\* floor(x / 2^s)
ShiftRight(x, s) ==
    LET w == s \div LimbBits
        b == s % LimbBits
    IN  Trim([i \in 1..Max(Len(x) - w, 0) |->
                 Limb(x, i + w) \div Pow(2, b)
                   + (Limb(x, i + w + 1) % Pow(2, b)) * Pow(2, LimbBits - b)])

\* floor(x / d) and whether the division left a remainder, for a small d.
RECURSIVE DivSmall(_, _, _, _)
DivSmall(x, d, i, r) ==
    IF i = 0 THEN [q |-> <<>>, exact |-> r = 0]
    ELSE LET t    == r * LimbBase + x[i]
             rest == DivSmall(x, d, i - 1, t % d)
         IN  [q |-> rest.q \o <<t \div d>>, exact |-> rest.exact]

\* A double: 0, or m * 2^e with m of exactly MantissaBits bits.
Zero == [m |-> <<>>, e |-> 0]

\* n * 2^e rounded to the nearest double, ties to even.
RoundToDouble(n, e) ==
    LET len == BitLen(n)
        s   == len - MantissaBits
        q   == ShiftRight(n, s)
        up  == /\ Bit(n, s - 1) = 1
               /\ \/ Bit(q, 0) = 1
                  \/ \E i \in 0..(s - 2) : Bit(n, i) = 1
        r   == IF up THEN BigAdd(q, <<1>>) ELSE q
    IN  IF len = 0 THEN Zero
        ELSE IF s <= 0 THEN [m |-> ShiftLeft(n, -s), e |-> e + s]
        ELSE IF BitLen(r) > MantissaBits
             THEN [m |-> ShiftRight(r, 1), e |-> e + s + 1]
             ELSE [m |-> r, e |-> e + s]

DoubleOfInt(n) == RoundToDouble(BigOfInt(n), 0)

\* The double nearest to num / den: the quotient to 2 * MantissaBits binary
\* places, with one more digit that tells whether anything was left.
DoubleOfRatio(num, den) ==
    LET n == ShiftLeft(BigOfInt(num), 2 * MantissaBits)
        d == DivSmall(n, den, Len(n), 0)
    IN  RoundToDouble(BigAdd(ShiftLeft(Trim(d.q), 1),
                             IF d.exact THEN <<>> ELSE <<1>>),
                      -(2 * MantissaBits) - 1)

FMul(a, b) ==
    IF a = Zero \/ b = Zero THEN Zero
    ELSE RoundToDouble(BigMul(a.m, b.m), a.e + b.e)

FAdd(a, b) ==
    IF a = Zero THEN b
    ELSE IF b = Zero THEN a
    ELSE LET e == IF a.e <= b.e THEN a.e ELSE b.e
         IN  RoundToDouble(BigAdd(ShiftLeft(a.m, a.e - e), ShiftLeft(b.m, b.e - e)), e)

\* a - b, for a >= b.
FSub(a, b) ==
    IF b = Zero THEN a
    ELSE LET e == IF a.e <= b.e THEN a.e ELSE b.e
         IN  RoundToDouble(BigSub(ShiftLeft(a.m, a.e - e), ShiftLeft(b.m, b.e - e)), e)

\* a > b
FGreater(a, b) ==
    IF a = Zero THEN FALSE
    ELSE IF b = Zero THEN TRUE
    ELSE \/ a.e > b.e
         \/ a.e = b.e /\ BigGreater(a.m, b.m)

\* The literal 0.1.
SMOOTHING_FACTOR == DoubleOfRatio(SmoothingNum, SmoothingDen)

\* SMOOTHING_FACTOR * raw + (1 - SMOOTHING_FACTOR) * current, each operation
\* rounded.
DoubleSmoothed(raw, current) ==
    FAdd(FMul(SMOOTHING_FACTOR, raw),
         FMul(FSub(DoubleOfInt(1), SMOOTHING_FACTOR), current))

\* shouldShowNormally of showBreakSuggestion, on a double level.
ShouldShowNormallyDouble(active, user, level, last, t) ==
    /\ ~active
    /\ user
    /\ FGreater(level, DoubleOfInt(STRESS_THRESHOLD))
    /\ IntervalElapsed(last, t)

\* -------------------------------------------------------------------- Init
\* The store after create(), but for currentStressLevel; no sample was
\* delivered.
InitFields ==
    /\ isCompanionChatOpen = FALSE
    /\ coachMessages = <<>>
    /\ coachIsLoading = FALSE
    /\ coachRequests = {}
    /\ coachTurns = 0
    /\ feedbackRequests = {}
    /\ feedbackTurns = 0
    /\ memoryStore = [isLoading |-> FALSE, error |-> FALSE, unsubscribe |-> NoListener]
    /\ companionStore = [isHabitLoading           |-> TRUE,
                         habitError               |-> FALSE,
                         habitListenerUnsubscribe |-> NoListener,
                         isMoodLoading            |-> TRUE,
                         moodError                |-> FALSE,
                         moodListenerUnsubscribe  |-> NoListener]
    /\ firestoreListeners = [c \in Collections |-> {}]
    /\ listenersCreated = 0
    /\ calibration = [step      |-> "initial",
                      countdown |-> CALIBRATION_HOLD_DURATION,
                      timeouts  |-> [r \in 0..PositioningSeconds |-> 0]]
    /\ framesCaptured = 0
    /\ analysesInFlight = {}
    /\ lastDelivered = [frame |-> 0, failed |-> FALSE]
    /\ remainingTime = durationSeconds
    /\ currentStretchIndex = 0
    /\ currentStretchDuration = stretches[0].duration
    /\ timeLeft = stretches[0].duration
    /\ isUserActive = FALSE
    /\ lastBreakTimestamp = NoTimestamp
    /\ breakSuggestionActive = FALSE
    /\ currentBreakSuggestion = Null
    /\ dynamicCoachingMessage = Null
    /\ isFetchingCoachingMessage = FALSE
    /\ isFeedbackChatOpen = FALSE
    /\ feedbackChatHistory = <<>>
    /\ isFeedbackLoading = FALSE
    /\ isBreakSelectionOpen = FALSE
    /\ isBreathingExerciseOpen = FALSE
    /\ isStretchingExerciseOpen = FALSE
    /\ isPuzzleBreakOpen = FALSE
    /\ now = 1
    /\ pending = <<>>
    /\ forcedCalls = 0
    /\ samples = <<>>
    /\ lastOp = [op |-> "init"]
    /\ cooldownUntil = 0
    /\ sessionRestUntil = 0

\* The store after create().
InitApp ==
    /\ currentStressLevel = 0
    /\ InitFields

\* The store after create(), the level held as a double.
InitDouble ==
    /\ currentStressLevel = Zero
    /\ InitFields
    /\ preferenceModel = EmptyModel

\* The page loads for a user without scores.
Init ==
    /\ InitApp
    /\ preferenceModel = EmptyModel

\* ------------------------------------------------------- the store, as data
\* get(): the store's state.
Store ==
    [currentStressLevel        |-> currentStressLevel,
     isUserActive              |-> isUserActive,
     lastBreakTimestamp        |-> lastBreakTimestamp,
     breakSuggestionActive     |-> breakSuggestionActive,
     currentBreakSuggestion    |-> currentBreakSuggestion,
     dynamicCoachingMessage    |-> dynamicCoachingMessage,
     isFetchingCoachingMessage |-> isFetchingCoachingMessage,
     isFeedbackChatOpen        |-> isFeedbackChatOpen,
     feedbackChatHistory       |-> feedbackChatHistory,
     isFeedbackLoading         |-> isFeedbackLoading]

\* The store's state becomes s.
SetStore(s) ==
    /\ currentStressLevel' = s.currentStressLevel
    /\ isUserActive' = s.isUserActive
    /\ lastBreakTimestamp' = s.lastBreakTimestamp
    /\ breakSuggestionActive' = s.breakSuggestionActive
    /\ currentBreakSuggestion' = s.currentBreakSuggestion
    /\ dynamicCoachingMessage' = s.dynamicCoachingMessage
    /\ isFetchingCoachingMessage' = s.isFetchingCoachingMessage
    /\ isFeedbackChatOpen' = s.isFeedbackChatOpen
    /\ feedbackChatHistory' = s.feedbackChatHistory
    /\ isFeedbackLoading' = s.isFeedbackLoading

\* updateMetricsFromCV storing the raw sample itself.
updateMetricsFromCV_Unsmoothed(s, rawStressLevel, active) ==
    [s EXCEPT !.currentStressLevel = rawStressLevel,
              !.isUserActive = active]

\* updateMetricsFromCV on a double level.
updateMetricsFromCVDouble(s, rawStressLevel, active) ==
    [s EXCEPT !.currentStressLevel =
                  DoubleSmoothed(DoubleOfInt(rawStressLevel), s.currentStressLevel),
              !.isUserActive = active]

updateMetricsFromCV(s, rawStressLevel, active) ==
    [s EXCEPT !.currentStressLevel = Smoothed(rawStressLevel, s.currentStressLevel),
              !.isUserActive = active]

\* showBreakSuggestion up to its first await: the loading set().
showBreakSuggestionStart(s) ==
    [s EXCEPT !.isFetchingCoachingMessage = TRUE,
              !.dynamicCoachingMessage = Null]

\* The final set() of showBreakSuggestion also clearing lastBreakTimestamp.
showBreakSuggestionFinish_ResetsTimestamp(s, selectedBreak, outcome) ==
    [s EXCEPT !.breakSuggestionActive = TRUE,
              !.currentBreakSuggestion = selectedBreak,
              !.dynamicCoachingMessage = CoachingMessageFor(outcome, selectedBreak),
              !.isFetchingCoachingMessage = FALSE,
              !.lastBreakTimestamp = NoTimestamp]

\* showBreakSuggestion after its awaits: the final set().
showBreakSuggestionFinish(s, selectedBreak, outcome) ==
    [s EXCEPT !.breakSuggestionActive = TRUE,
              !.currentBreakSuggestion = selectedBreak,
              !.dynamicCoachingMessage = CoachingMessageFor(outcome, selectedBreak),
              !.isFetchingCoachingMessage = FALSE]

\* dismissBreakSuggestion without its write of lastBreakTimestamp.
dismissBreakSuggestion_NoTimestamp(s, cooldownMinutes, t) ==
    [s EXCEPT !.breakSuggestionActive = FALSE,
              !.currentBreakSuggestion = Null,
              !.dynamicCoachingMessage = Null,
              !.isFetchingCoachingMessage = FALSE]

\* cooldownMinutes is logged and not used.
dismissBreakSuggestion(s, cooldownMinutes, t) ==
    [s EXCEPT !.breakSuggestionActive = FALSE,
              !.currentBreakSuggestion = Null,
              !.dynamicCoachingMessage = Null,
              !.isFetchingCoachingMessage = FALSE,
              !.lastBreakTimestamp = t]

recordBreakTaken(s, t) ==
    [s EXCEPT !.breakSuggestionActive = FALSE,
              !.currentBreakSuggestion = Null,
              !.dynamicCoachingMessage = Null,
              !.isFetchingCoachingMessage = FALSE,
              !.lastBreakTimestamp = t]

openFeedbackChat(s, initialMessage) ==
    [s EXCEPT !.isFeedbackChatOpen = TRUE,
              !.feedbackChatHistory = <<initialMessage>>,
              !.isFeedbackLoading = FALSE,
              !.breakSuggestionActive = FALSE,
              !.currentBreakSuggestion = Null,
              !.dynamicCoachingMessage = Null,
              !.isFetchingCoachingMessage = FALSE]

\* closeFeedbackChat leaving the history in place.
closeFeedbackChat_KeepsHistory(s) ==
    [s EXCEPT !.isFeedbackChatOpen = FALSE,
              !.isFeedbackLoading = FALSE]

closeFeedbackChat(s) ==
    [s EXCEPT !.isFeedbackChatOpen = FALSE,
              !.feedbackChatHistory = <<>>,
              !.isFeedbackLoading = FALSE]

addFeedbackMessage(s, message) ==
    [s EXCEPT !.feedbackChatHistory = Append(s.feedbackChatHistory, message)]

setFeedbackLoading(s, isLoading) ==
    [s EXCEPT !.isFeedbackLoading = isLoading]

\* A new suspended showBreakSuggestion(force) call with its selected break.
Fetch(selectedBreak, force) ==
    [sel |-> selectedBreak, forced |-> force, stale |-> FALSE]

\* Ticks in a cooldown of the later of c minutes and the global minimum.
CooldownTicks(c) == Max(c * 60 * 1000, MIN_BREAK_INTERVAL_MS) \div TickMs

\* ----------------------------------------------------------------- actions
\* WebcamDetector delivers a sample: handlePoseData -> updateMetricsFromCV, and
\* then App's effect on [currentStressLevel] calls showBreakSuggestion() when
\* the smoothed level changed.
SampleStep(raw, active) ==
    LET s1   == updateMetricsFromCV(Store, raw, active)
        show == /\ s1.currentStressLevel # currentStressLevel
                /\ ShouldShowNormally(s1.breakSuggestionActive, s1.isUserActive,
                                      s1.currentStressLevel, s1.lastBreakTimestamp, now)
    IN  /\ Representable(raw, currentStressLevel)
        /\ IF show
           THEN /\ Len(pending) < MaxInFlight
                /\ \E i \in RandomIndexes :
                      pending' = Append(pending, Fetch(breakTypes[i], FALSE))
                /\ SetStore(showBreakSuggestionStart(s1))
           ELSE /\ pending' = pending
                /\ SetStore(s1)
        /\ lastOp' = [op |-> "sample", raised |-> show]
        /\ UNCHANGED <<sideVars, preferenceModel, forcedCalls, appVars, now, cooldownUntil, sessionRestUntil>>

\* A sample, its history not kept.
Sample(raw, active) ==
    /\ SampleStep(raw, active)
    /\ UNCHANGED samples

\* A sample, appended to the history of samples.
RecordedSample(raw, active) ==
    /\ Len(samples) < MaxSamples
    /\ SampleStep(raw, active)
    /\ samples' = Append(samples, [raw |-> raw, active |-> active])

\* handlePoseData on a double level: updateMetricsFromCV and the effect on
\* [currentStressLevel]; the first MaxSamples samples are recorded.
DoublePoseData(raw, active) ==
    LET s1   == updateMetricsFromCVDouble(Store, raw, active)
        show == /\ s1.currentStressLevel # currentStressLevel
                /\ ShouldShowNormallyDouble(s1.breakSuggestionActive, s1.isUserActive,
                                            s1.currentStressLevel,
                                            s1.lastBreakTimestamp, now)
    IN  /\ IF show
           THEN /\ Len(pending) < MaxInFlight
                /\ \E i \in RandomIndexes :
                      pending' = Append(pending, Fetch(breakTypes[i], FALSE))
                /\ SetStore(showBreakSuggestionStart(s1))
           ELSE /\ pending' = pending
                /\ SetStore(s1)
        /\ samples' = IF Len(samples) < MaxSamples
                      THEN Append(samples, [raw |-> raw, active |-> active])
                      ELSE samples
        /\ lastOp' = [op |-> "sample", raised |-> show]
        /\ UNCHANGED <<preferenceModel, forcedCalls, appVars, now, cooldownUntil, sessionRestUntil>>

\* SampleStep on a double level.
DoubleSample(raw, active) ==
    /\ DoublePoseData(raw, active)
    /\ UNCHANGED sideVars

\* showBreakSuggestion(true) with its force argument ignored.
ForceClick_Gated ==
    /\ forcedCalls < MaxForced
    /\ forcedCalls' = forcedCalls + 1
    /\ IF ShouldShowNormally(breakSuggestionActive, isUserActive,
                             currentStressLevel, lastBreakTimestamp, now)
       THEN /\ Len(pending) < MaxInFlight
            /\ \E i \in RandomIndexes :
                  pending' = Append(pending, Fetch(breakTypes[i], TRUE))
            /\ SetStore(showBreakSuggestionStart(Store))
       ELSE /\ pending' = pending
            /\ UNCHANGED storeVars
    /\ lastOp' = [op |-> "force"]
    /\ UNCHANGED <<sideVars, preferenceModel, samples, appVars, now, cooldownUntil, sessionRestUntil>>

\* 'Trigger Break (Test)': showBreakSuggestion(true).
ForceClick ==
    /\ forcedCalls < MaxForced
    /\ forcedCalls' = forcedCalls + 1
    /\ Len(pending) < MaxInFlight
    /\ \E i \in RandomIndexes :
          pending' = Append(pending, Fetch(breakTypes[i], TRUE))
    /\ SetStore(showBreakSuggestionStart(Store))
    /\ lastOp' = [op |-> "force"]
    /\ UNCHANGED <<sideVars, preferenceModel, samples, appVars, now, cooldownUntil, sessionRestUntil>>

\* A suspended showBreakSuggestion call resumes with the outcome of its fetch.
ResolveFetch(i, outcome) ==
    /\ i \in DOMAIN pending
    /\ SetStore(showBreakSuggestionFinish(Store, pending[i].sel, outcome))
    /\ pending' = RemoveAt(pending, i)
    /\ lastOp' = [op |-> "resolve", sel |-> pending[i].sel,
                  forced |-> pending[i].forced,
                  outcome |-> outcome, stale |-> pending[i].stale]
    /\ UNCHANGED <<sideVars, preferenceModel, samples, forcedCalls, appVars, now, cooldownUntil, sessionRestUntil>>

\* 'Dismiss' of the suggestion alert: dismissBreakSuggestion(c), openFeedbackChat.
DismissClick(c) ==
    /\ breakSuggestionActive
    /\ SetStore(openFeedbackChat(dismissBreakSuggestion(Store, c, now),
                                 AssistantMessage("break skipped")))
    /\ pending' = MarkStale(pending)
    /\ cooldownUntil' = now + CooldownTicks(c)
    /\ sessionRestUntil' = now + CooldownTicks(0)
    /\ lastOp' = [op |-> "dismiss"]
    /\ UNCHANGED <<sideVars, preferenceModel, samples, forcedCalls, appVars, now>>

\* 'Take Break' of the suggestion alert: dismissBreakSuggestion(), selection opens.
TakeBreakClick ==
    /\ breakSuggestionActive
    /\ SetStore(dismissBreakSuggestion(Store, 5, now))
    /\ isBreakSelectionOpen' = TRUE
    /\ pending' = MarkStale(pending)
    /\ cooldownUntil' = now + CooldownTicks(5)
    /\ lastOp' = [op |-> "takeBreak"]
    /\ UNCHANGED <<sideVars, preferenceModel, samples, forcedCalls, isBreathingExerciseOpen, isStretchingExerciseOpen,
                   isPuzzleBreakOpen, now, sessionRestUntil>>

\* StretchingExercise setCurrentStretchIndex(index), startTimer(index): the
\* interval is replaced, the duration and the time left are those of the
\* stretch.
startTimer(index) ==
    /\ currentStretchDuration' = stretches[index].duration
    /\ timeLeft' = stretches[index].duration
    /\ currentStretchIndex' = index

\* StretchingExercise, the effect on [isOpen] when the dialog closes.
resetStretches ==
    /\ currentStretchIndex' = 0
    /\ timeLeft' = stretches[0].duration
    /\ currentStretchDuration' = stretches[0].duration

\* BreakSelectionDialog handleSelect -> App handleSelectBreak, then onClose;
\* the effects on [isOpen] of the exercise that opens.
SelectBreak(choice) ==
    /\ isBreakSelectionOpen
    /\ isBreakSelectionOpen' = FALSE
    /\ isBreathingExerciseOpen' = (isBreathingExerciseOpen \/ choice = "breathing")
    /\ isStretchingExerciseOpen' = (isStretchingExerciseOpen \/ choice = "stretching")
    /\ isPuzzleBreakOpen' = (isPuzzleBreakOpen \/ choice = "puzzle")
    /\ remainingTime' = IF choice = "breathing" /\ ~isBreathingExerciseOpen
                        THEN durationSeconds ELSE remainingTime
    /\ IF choice = "stretching" /\ ~isStretchingExerciseOpen
       THEN startTimer(currentStretchIndex)
       ELSE UNCHANGED stretchingVars
    /\ lastOp' = [op |-> "select"]
    /\ UNCHANGED <<coachVars, feedbackVars, listenerVars, calibration, detectorVars,
                   preferenceModel, samples, forcedCalls, storeVars, now, pending,
                   cooldownUntil, sessionRestUntil>>

\* 'Cancel' of BreakSelectionDialog: handleCloseBreakSelection.
CloseBreakSelection ==
    /\ isBreakSelectionOpen
    /\ isBreakSelectionOpen' = FALSE
    /\ lastOp' = [op |-> "cancelSelect"]
    /\ UNCHANGED <<sideVars, preferenceModel, samples, forcedCalls, storeVars, isBreathingExerciseOpen, isStretchingExerciseOpen,
                   isPuzzleBreakOpen, now, pending, cooldownUntil, sessionRestUntil>>

\* BreathingExercise handleComplete (completed) / handleSkip: onClose,
\* openFeedbackChat; the effect on [isOpen] resets the countdown.
handleBreathingEnd(completed, by) ==
    /\ isBreathingExerciseOpen
    /\ isBreathingExerciseOpen' = FALSE
    /\ SetStore(openFeedbackChat(Store,
            AssistantMessage(IF completed THEN "breathing completed"
                                          ELSE "breathing skipped")))
    /\ pending' = MarkStale(pending)
    /\ sessionRestUntil' = now + CooldownTicks(0)
    /\ remainingTime' = durationSeconds
    /\ lastOp' = [op |-> "breathingEnd", completed |-> completed, by |-> by]
    /\ UNCHANGED <<coachVars, feedbackVars, listenerVars, calibration, detectorVars, stretchingVars,
                   preferenceModel, samples, forcedCalls, isBreakSelectionOpen,
                   isStretchingExerciseOpen, isPuzzleBreakOpen, now, cooldownUntil>>

\* 'Complete' (completed) and 'Skip' or Escape of the breathing dialog.
BreathingEnd(completed) ==
    /\ isBreathingExerciseOpen
    /\ handleBreathingEnd(completed, "user")

\* StretchingExercise handleFinish (completed) / handleSkip: onClose,
\* openFeedbackChat; the effect on [isOpen] resets the stretches.
handleStretchingEnd(completed, by) ==
    /\ isStretchingExerciseOpen
    /\ isStretchingExerciseOpen' = FALSE
    /\ SetStore(openFeedbackChat(Store,
            AssistantMessage(IF completed THEN "stretches completed"
                                          ELSE "stretching skipped")))
    /\ pending' = MarkStale(pending)
    /\ sessionRestUntil' = now + CooldownTicks(0)
    /\ resetStretches
    /\ lastOp' = [op |-> "stretchingEnd", completed |-> completed, by |-> by]
    /\ UNCHANGED <<coachVars, feedbackVars, listenerVars, calibration, detectorVars, remainingTime,
                   preferenceModel, samples, forcedCalls, isBreakSelectionOpen,
                   isBreathingExerciseOpen, isPuzzleBreakOpen, now, cooldownUntil>>

\* 'Finish', shown on the last stretch (completed); 'Skip Break', shown on
\* the first, or the dialog's own closing (Escape, outside click) on any.
StretchingEnd(completed) ==
    /\ completed => currentStretchIndex = totalStretches - 1
    /\ handleStretchingEnd(completed, "user")

\* A move to the next stretch goes two ahead.
nextStretchIndex_SkipsAStretch(index) ==
    IF index + 2 < totalStretches THEN index + 2 ELSE totalStretches - 1

\* handleNext: nextIndex.
nextStretchIndex(index) == index + 1

\* 'Next', shown before the last stretch: handleNext.
HandleNext ==
    /\ isStretchingExerciseOpen
    /\ currentStretchIndex < totalStretches - 1
    /\ startTimer(nextStretchIndex(currentStretchIndex))
    /\ lastOp' = [op |-> "stretchNext"]
    /\ UNCHANGED <<coachVars, feedbackVars, listenerVars, calibration, detectorVars, remainingTime,
                   storeVars, appVars, now, pending, forcedCalls, samples,
                   preferenceModel, cooldownUntil, sessionRestUntil>>

\* handlePrevious, of the button 'Previous' shown after the first stretch.
HandlePrevious ==
    /\ isStretchingExerciseOpen
    /\ IF currentStretchIndex > 0
       THEN startTimer(currentStretchIndex - 1)
       ELSE UNCHANGED stretchingVars
    /\ lastOp' = [op |-> "stretchPrevious"]
    /\ UNCHANGED <<coachVars, feedbackVars, listenerVars, calibration, detectorVars, remainingTime,
                   storeVars, appVars, now, pending, forcedCalls, samples,
                   preferenceModel, cooldownUntil, sessionRestUntil>>

\* PuzzleBreak handleSubmit with the right answer (solved) / handleSkip:
\* recordBreakTaken, openFeedbackChat.  The puzzle dialog stays open.
PuzzleEnd(solved) ==
    /\ isPuzzleBreakOpen
    /\ SetStore(openFeedbackChat(recordBreakTaken(Store, now),
            AssistantMessage(IF solved THEN "puzzle solved" ELSE "puzzle skipped")))
    /\ pending' = MarkStale(pending)
    /\ sessionRestUntil' = now + CooldownTicks(0)
    /\ lastOp' = [op |-> "puzzleEnd", completed |-> solved]
    /\ UNCHANGED <<sideVars, preferenceModel, samples, forcedCalls, appVars, now, cooldownUntil>>

\* The puzzle dialog is closed: handlePuzzleClose.
PuzzleClose ==
    /\ isPuzzleBreakOpen
    /\ isPuzzleBreakOpen' = FALSE
    /\ lastOp' = [op |-> "puzzleClose"]
    /\ UNCHANGED <<sideVars, preferenceModel, samples, forcedCalls, storeVars, isBreakSelectionOpen, isBreathingExerciseOpen,
                   isStretchingExerciseOpen, now, pending, cooldownUntil,
                   sessionRestUntil>>

\* FeedbackChatDialog handleOpenChange(false): closeFeedbackChat.
FeedbackClose ==
    /\ isFeedbackChatOpen
    /\ SetStore(closeFeedbackChat(Store))
    /\ lastOp' = [op |-> "feedbackClose"]
    /\ UNCHANGED <<sideVars, preferenceModel, samples, forcedCalls, appVars, now, pending, cooldownUntil, sessionRestUntil>>

\* A deadline of an observer, once the clock has reached t.
StillAhead(deadline, t) == IF deadline > t THEN deadline ELSE 0

\* Date.now() advances by one tick.  BreathingExercise's countdown
\* (durationSeconds = 60) completes the exercise within a tick, so no tick
\* passes while it is open; the stretches can be stepped back and the puzzle
\* has no timer.
Tick ==
    /\ now < MaxTime
    /\ ~isBreathingExerciseOpen
    /\ now' = now + 1
    /\ cooldownUntil' = StillAhead(cooldownUntil, now + 1)
    /\ sessionRestUntil' = StillAhead(sessionRestUntil, now + 1)
    /\ lastOp' = [op |-> "tick"]
    /\ UNCHANGED <<sideVars, preferenceModel, samples, forcedCalls, storeVars, appVars, pending>>

\* The application as its user drives it: sensor samples, the suggestion alert,
\* the break dialogs and the feedback dialog.
Next ==
    \/ \E raw \in {r * Scale : r \in RawLevels} \cup {currentStressLevel},
          active \in BOOLEAN : Sample(raw, active)
    \/ \E i \in 1..MaxInFlight, outcome \in FetchOutcomes : ResolveFetch(i, outcome)
    \/ \E c \in CooldownMinutes : DismissClick(c)
    \/ TakeBreakClick
    \/ \E choice \in BreakChoice : SelectBreak(choice)
    \/ CloseBreakSelection
    \/ \E completed \in BOOLEAN : BreathingEnd(completed)
    \/ \E completed \in BOOLEAN : StretchingEnd(completed)
    \/ HandleNext
    \/ HandlePrevious
    \/ \E solved \in BOOLEAN : PuzzleEnd(solved)
    \/ PuzzleClose
    \/ FeedbackClose
    \/ Tick

Spec == Init /\ [][Next]_vars

\* The store with its alert and the 'Trigger Break (Test)' button; no break
\* activity is started.
NextForced ==
    \/ \E raw \in {r * Scale : r \in RawLevels} \cup {currentStressLevel},
          active \in BOOLEAN : Sample(raw, active)
    \/ ForceClick
    \/ \E i \in 1..MaxInFlight, outcome \in FetchOutcomes : ResolveFetch(i, outcome)
    \/ \E c \in CooldownMinutes : DismissClick(c)
    \/ TakeBreakClick
    \/ CloseBreakSelection
    \/ FeedbackClose
    \/ Tick

SpecForced == Init /\ [][NextForced]_vars

\* The smoother and the trigger under recorded sample streams: samples arrive,
\* coaching fetches resolve.
NextStream ==
    \/ \E r \in StreamLevels, active \in BOOLEAN : RecordedSample(r * Scale, active)
    \/ \E i \in 1..MaxInFlight, outcome \in FetchOutcomes : ResolveFetch(i, outcome)

SpecStream == Init /\ [][NextStream]_vars

\* The smoother and the trigger in the arithmetic of the code: a stream of
\* samples at the raw levels of DoubleLevels with the user present, coaching
\* fetches resolve.
NextDouble ==
    \/ \E r \in DoubleLevels : DoubleSample(r, TRUE)
    \/ \E i \in 1..MaxInFlight, outcome \in FetchOutcomes : ResolveFetch(i, outcome)

SpecDouble == InitDouble /\ [][NextDouble]_vars

\* ------------------------------------------------------ the feedback dialog
\* The user's message of the k-th handleSendMessage call.
UserMessage(k) == [role |-> "user", content |-> "feedback " \o ToString(k)]

\* handleSendMessage with a non-empty input, up to its await: the message is
\* added, the loading flag set, and feedback_chat called with apiMessages.
FeedbackSend ==
    /\ isFeedbackChatOpen
    /\ ~isFeedbackLoading
    /\ feedbackTurns < MaxFeedbackTurns
    /\ feedbackTurns' = feedbackTurns + 1
    /\ SetStore(setFeedbackLoading(
                    addFeedbackMessage(Store, UserMessage(feedbackTurns + 1)), TRUE))
    /\ feedbackRequests' = feedbackRequests \cup
           {[turn |-> feedbackTurns + 1,
             apiMessages |-> Append(feedbackChatHistory, UserMessage(feedbackTurns + 1))]}
    /\ lastOp' = [op |-> "feedbackSend"]
    /\ UNCHANGED <<coachVars, listenerVars, componentVars, appVars, now, pending,
                   forcedCalls, samples, preferenceModel, cooldownUntil,
                   sessionRestUntil>>

\* handleSendMessage resumes: the reply (ok) or the catch block's message is
\* added, then finally clears the loading flag.
FeedbackReply(turn, ok) ==
    /\ \E request \in feedbackRequests :
          /\ request.turn = turn
          /\ feedbackRequests' = feedbackRequests \ {request}
          /\ lastOp' = [op |-> "feedbackReply", apiMessages |-> request.apiMessages]
    /\ SetStore(setFeedbackLoading(
                    addFeedbackMessage(Store,
                        AssistantMessage(IF ok THEN "reply " \o ToString(turn)
                                               ELSE "could not process")),
                    FALSE))
    /\ UNCHANGED <<coachVars, listenerVars, componentVars, feedbackTurns, appVars, now, pending,
                   forcedCalls, samples, preferenceModel, cooldownUntil,
                   sessionRestUntil>>

\* The suggestion alert and the feedback dialog it leads to: suggestions are
\* raised and dismissed, the user writes feedback, replies arrive, the dialog
\* is closed.
NextFeedback ==
    \/ \E raw \in {r * Scale : r \in RawLevels}, active \in {TRUE} : Sample(raw, active)
    \/ \E i \in 1..MaxInFlight, outcome \in {"ok"} : ResolveFetch(i, outcome)
    \/ \E c \in {5} : DismissClick(c)
    \/ FeedbackSend
    \/ \E turn \in 1..MaxFeedbackTurns, ok \in BOOLEAN : FeedbackReply(turn, ok)
    \/ FeedbackClose
    \/ Tick

SpecFeedback == Init /\ [][NextFeedback]_vars

\* ------------------------------------------------------ the companion chat
\* The state of the break orchestration, but for the observer lastOp.
breakVars == <<storeVars, appVars, now, pending, forcedCalls, samples,
               preferenceModel, cooldownUntil, sessionRestUntil>>

\* A message of the chat.  turn: the handleSubmit call that wrote it or whose
\* reply it is, 0 for the greeting; sentiment: the turn whose response put its
\* data.sentiment on the message, 0 when the message has none.
CoachMessage(role, turn) == [role |-> role, turn |-> turn, sentiment |-> 0]

\* The updater given to setMessages when the response of this turn arrived.
WithReply(prevMessages, turn) ==
    LET last == Len(prevMessages)
        updatedPrevMessages ==
            IF last > 0 /\ prevMessages[last].role = "user"
            THEN [prevMessages EXCEPT ![last].sentiment = turn]
            ELSE prevMessages
    IN  Append(updatedPrevMessages, CoachMessage("assistant", turn))

\* openCompanionChat, and the effect on [isOpen, personality] that follows.
OpenCompanionChat ==
    /\ ~isCompanionChatOpen
    /\ isCompanionChatOpen' = TRUE
    /\ coachMessages' = <<CoachMessage("assistant", 0)>>
    /\ coachIsLoading' = FALSE
    /\ lastOp' = [op |-> "openCompanionChat"]
    /\ UNCHANGED <<coachRequests, coachTurns, feedbackVars, listenerVars, componentVars, breakVars>>

\* handleSheetOpenChange(false): closeCompanionChat.  The messages are kept.
CloseCompanionChat ==
    /\ isCompanionChatOpen
    /\ isCompanionChatOpen' = FALSE
    /\ lastOp' = [op |-> "closeCompanionChat"]
    /\ UNCHANGED <<coachMessages, coachIsLoading, coachRequests, coachTurns,
                   feedbackVars, listenerVars, componentVars, breakVars>>

\* handleSubmit with a non-empty input, up to its await.
CoachSubmit ==
    /\ isCompanionChatOpen
    /\ ~coachIsLoading
    /\ coachTurns < MaxTurns
    /\ coachTurns' = coachTurns + 1
    /\ coachMessages' = Append(coachMessages, CoachMessage("user", coachTurns + 1))
    /\ coachIsLoading' = TRUE
    /\ coachRequests' = coachRequests \cup {coachTurns + 1}
    /\ lastOp' = [op |-> "coachSubmit"]
    /\ UNCHANGED <<isCompanionChatOpen, feedbackVars, listenerVars, componentVars, breakVars>>

\* handleSubmit resumes: the response of chat_with_coach (ok) or the catch
\* block, then finally.
CoachReply(turn, ok) ==
    /\ turn \in coachRequests
    /\ coachRequests' = coachRequests \ {turn}
    /\ coachMessages' = IF ok THEN WithReply(coachMessages, turn)
                              ELSE Append(coachMessages, CoachMessage("assistant", turn))
    /\ coachIsLoading' = FALSE
    /\ lastOp' = [op |-> "coachReply", turn |-> turn, ok |-> ok]
    /\ UNCHANGED <<isCompanionChatOpen, coachTurns, feedbackVars, listenerVars, componentVars, breakVars>>

NextCoach ==
    \/ OpenCompanionChat
    \/ CloseCompanionChat
    \/ CoachSubmit
    \/ \E turn \in 1..MaxTurns, ok \in BOOLEAN : CoachReply(turn, ok)

SpecCoach == Init /\ [][NextCoach]_vars

\* ------------------------------------------------ the Firestore subscriptions
\* A listener that onSnapshot attached; delivered: its first snapshot or its
\* error was handed to the store.
Listener(id) == [id |-> id, delivered |-> FALSE]

\* The function onSnapshot returned is never called.
Detached_Leaks(listeners, id) == listeners

\* The function onSnapshot returned for listener id is called.
Detached(listeners, id) == {l \in listeners : l.id # id}

\* A callback of listener id ran.
Delivered(listeners, id) ==
    {IF l.id = id THEN [l EXCEPT !.delivered = TRUE] ELSE l : l \in listeners}

\* unsubscribeFromMemories, on the store m.
unsubscribeFromMemories(m) ==
    IF m.unsubscribe # NoListener THEN [m EXCEPT !.unsubscribe = NoListener] ELSE m

\* subscribeToMemories(userId); throws: onSnapshot throws.
SubscribeToMemories(userId, throws) ==
    LET m1       == [unsubscribeFromMemories(memoryStore)
                        EXCEPT !.isLoading = TRUE, !.error = FALSE]
        attached == Detached(firestoreListeners["memories"], memoryStore.unsubscribe)
        id       == listenersCreated + 1
    IN  /\ IF userId = "" \/ throws
           THEN /\ memoryStore' = [m1 EXCEPT !.isLoading = FALSE, !.error = TRUE]
                /\ firestoreListeners' =
                       [firestoreListeners EXCEPT !["memories"] = attached]
                /\ UNCHANGED listenersCreated
           ELSE /\ listenersCreated < MaxListeners
                /\ listenersCreated' = id
                /\ memoryStore' = [m1 EXCEPT !.unsubscribe = id]
                /\ firestoreListeners' =
                       [firestoreListeners EXCEPT
                           !["memories"] = attached \cup {Listener(id)}]
        /\ lastOp' = [op |-> "subscribeToMemories",
                      detached |-> memoryStore.unsubscribe]
        /\ UNCHANGED <<companionStore, coachVars, feedbackVars, componentVars, breakVars>>

\* unsubscribeFromMemories().
UnsubscribeFromMemories ==
    /\ memoryStore' = unsubscribeFromMemories(memoryStore)
    /\ firestoreListeners' =
           [firestoreListeners EXCEPT
               !["memories"] = Detached(@, memoryStore.unsubscribe)]
    /\ lastOp' = [op |-> "unsubscribeFromMemories",
                  detached |-> memoryStore.unsubscribe]
    /\ UNCHANGED <<companionStore, listenersCreated, coachVars, feedbackVars, componentVars, breakVars>>

\* An attached listener hands a snapshot (ok) or an error to its callback.
MemoriesEvent(id, ok) ==
    /\ \E l \in firestoreListeners["memories"] : l.id = id
    /\ memoryStore' = [memoryStore EXCEPT !.isLoading = FALSE, !.error = ~ok]
    /\ firestoreListeners' =
           [firestoreListeners EXCEPT !["memories"] = Delivered(@, id)]
    /\ lastOp' = [op |-> "memoriesEvent", detached |-> NoListener]
    /\ UNCHANGED <<companionStore, listenersCreated, coachVars, feedbackVars, componentVars, breakVars>>

\* onHabitsUpdate and onMoodEntriesUpdate attach a listener to their
\* collection and return the function that detaches it, or throw.
OnUpdateAttaches(throws) == ~throws

\* unsubscribeFromHabits, on the store c.
unsubscribeFromHabits(c) ==
    IF c.habitListenerUnsubscribe # NoListener
    THEN [c EXCEPT !.habitListenerUnsubscribe = NoListener, !.isHabitLoading = TRUE]
    ELSE c

\* subscribeToHabits(userId); throws: onHabitsUpdate throws, and the call
\* ends there.
SubscribeToHabits(userId, throws) ==
    LET c1       == [unsubscribeFromHabits(companionStore)
                        EXCEPT !.isHabitLoading = TRUE, !.habitError = FALSE]
        attached == Detached(firestoreListeners["habits"],
                             companionStore.habitListenerUnsubscribe)
        id       == listenersCreated + 1
    IN  /\ IF OnUpdateAttaches(throws)
           THEN /\ listenersCreated < MaxListeners
                /\ listenersCreated' = id
                /\ companionStore' = [c1 EXCEPT !.habitListenerUnsubscribe = id]
                /\ firestoreListeners' =
                       [firestoreListeners EXCEPT
                           !["habits"] = attached \cup {Listener(id)}]
           ELSE /\ companionStore' = c1
                /\ firestoreListeners' =
                       [firestoreListeners EXCEPT !["habits"] = attached]
                /\ UNCHANGED listenersCreated
        /\ lastOp' = [op |-> "subscribeToHabits",
                      detached |-> companionStore.habitListenerUnsubscribe]
        /\ UNCHANGED <<memoryStore, coachVars, feedbackVars, componentVars, breakVars>>

\* unsubscribeFromHabits().
UnsubscribeFromHabits ==
    /\ companionStore' = unsubscribeFromHabits(companionStore)
    /\ firestoreListeners' =
           [firestoreListeners EXCEPT
               !["habits"] = Detached(@, companionStore.habitListenerUnsubscribe)]
    /\ lastOp' = [op |-> "unsubscribeFromHabits",
                  detached |-> companionStore.habitListenerUnsubscribe]
    /\ UNCHANGED <<memoryStore, listenersCreated, coachVars, feedbackVars, componentVars, breakVars>>

\* An attached habits listener hands an update (ok) or an error to its callback.
HabitsEvent(id, ok) ==
    /\ \E l \in firestoreListeners["habits"] : l.id = id
    /\ companionStore' = IF ok THEN [companionStore EXCEPT !.isHabitLoading = FALSE]
                               ELSE [companionStore EXCEPT !.isHabitLoading = FALSE,
                                                           !.habitError = TRUE]
    /\ firestoreListeners' =
           [firestoreListeners EXCEPT !["habits"] = Delivered(@, id)]
    /\ lastOp' = [op |-> "habitsEvent", detached |-> NoListener]
    /\ UNCHANGED <<memoryStore, listenersCreated, coachVars, feedbackVars, componentVars, breakVars>>

\* unsubscribeFromMoodEntries, on the store c.
unsubscribeFromMoodEntries(c) ==
    IF c.moodListenerUnsubscribe # NoListener
    THEN [c EXCEPT !.moodListenerUnsubscribe = NoListener, !.isMoodLoading = TRUE]
    ELSE c

\* subscribeToMoodEntries(userId); throws: onMoodEntriesUpdate throws.
SubscribeToMoodEntries(userId, throws) ==
    LET c1       == [unsubscribeFromMoodEntries(companionStore)
                        EXCEPT !.isMoodLoading = TRUE, !.moodError = FALSE]
        attached == Detached(firestoreListeners["moods"],
                             companionStore.moodListenerUnsubscribe)
        id       == listenersCreated + 1
    IN  /\ IF OnUpdateAttaches(throws)
           THEN /\ listenersCreated < MaxListeners
                /\ listenersCreated' = id
                /\ companionStore' = [c1 EXCEPT !.moodListenerUnsubscribe = id]
                /\ firestoreListeners' =
                       [firestoreListeners EXCEPT
                           !["moods"] = attached \cup {Listener(id)}]
           ELSE /\ companionStore' = c1
                /\ firestoreListeners' =
                       [firestoreListeners EXCEPT !["moods"] = attached]
                /\ UNCHANGED listenersCreated
        /\ lastOp' = [op |-> "subscribeToMoodEntries",
                      detached |-> companionStore.moodListenerUnsubscribe]
        /\ UNCHANGED <<memoryStore, coachVars, feedbackVars, componentVars, breakVars>>

\* unsubscribeFromMoodEntries().
UnsubscribeFromMoodEntries ==
    /\ companionStore' = unsubscribeFromMoodEntries(companionStore)
    /\ firestoreListeners' =
           [firestoreListeners EXCEPT
               !["moods"] = Detached(@, companionStore.moodListenerUnsubscribe)]
    /\ lastOp' = [op |-> "unsubscribeFromMoodEntries",
                  detached |-> companionStore.moodListenerUnsubscribe]
    /\ UNCHANGED <<memoryStore, listenersCreated, coachVars, feedbackVars, componentVars, breakVars>>

\* An attached mood listener hands an update (ok) or an error to its callback.
MoodEntriesEvent(id, ok) ==
    /\ \E l \in firestoreListeners["moods"] : l.id = id
    /\ companionStore' = IF ok THEN [companionStore EXCEPT !.isMoodLoading = FALSE]
                               ELSE [companionStore EXCEPT !.isMoodLoading = FALSE,
                                                           !.moodError = TRUE]
    /\ firestoreListeners' =
           [firestoreListeners EXCEPT !["moods"] = Delivered(@, id)]
    /\ lastOp' = [op |-> "moodEntriesEvent", detached |-> NoListener]
    /\ UNCHANGED <<memoryStore, listenersCreated, coachVars, feedbackVars, componentVars, breakVars>>

\* The stores under any calls of their subscribe and unsubscribe actions, and
\* the events of the listeners attached.
NextListeners ==
    \/ \E userId \in UserIds, throws \in BOOLEAN : SubscribeToMemories(userId, throws)
    \/ UnsubscribeFromMemories
    \/ \E id \in 1..MaxListeners, ok \in BOOLEAN : MemoriesEvent(id, ok)
    \/ \E userId \in UserIds \ {""}, throws \in BOOLEAN : SubscribeToHabits(userId, throws)
    \/ UnsubscribeFromHabits
    \/ \E id \in 1..MaxListeners, ok \in BOOLEAN : HabitsEvent(id, ok)
    \/ \E userId \in UserIds \ {""}, throws \in BOOLEAN :
          SubscribeToMoodEntries(userId, throws)
    \/ UnsubscribeFromMoodEntries
    \/ \E id \in 1..MaxListeners, ok \in BOOLEAN : MoodEntriesEvent(id, ok)

SpecListeners == Init /\ [][NextListeners]_vars

\* ------------------------------------------------------- breathing exercise
\* The countdown loses two seconds a tick.
breathingInterval_SkipsASecond(prevTime) ==
    IF prevTime <= 2 THEN 0 ELSE prevTime - 2

\* What the updater of the interval of BreathingExercise returns.
breathingInterval(prevTime) == IF prevTime <= 1 THEN 0 ELSE prevTime - 1

\* The updater of the one-second interval of BreathingExercise, which runs
\* while the dialog is open: at prevTime <= 1 it calls handleComplete and
\* returns 0, and the effect on [isOpen] of the closing resets the countdown.
BreathingSecond ==
    /\ isBreathingExerciseOpen
    /\ IF remainingTime <= 1
       THEN handleBreathingEnd(TRUE, "interval")
       ELSE /\ remainingTime' = breathingInterval(remainingTime)
            /\ lastOp' = [op |-> "breathingSecond"]
            /\ UNCHANGED <<coachVars, feedbackVars, listenerVars, calibration, detectorVars,
                           stretchingVars, breakVars>>

\* A suggestion is raised and taken as a breathing exercise, which runs to
\* its end or is ended by the user.
NextBreathing ==
    \/ Sample(90 * Scale, TRUE)
    \/ \E i \in 1..MaxInFlight : ResolveFetch(i, "ok")
    \/ TakeBreakClick
    \/ SelectBreak("breathing")
    \/ BreathingSecond
    \/ \E completed \in BOOLEAN : BreathingEnd(completed)
    \/ FeedbackClose
    \/ Tick

\* The interval keeps firing while the dialog is open.
SpecBreathing == Init /\ [][NextBreathing]_vars /\ WF_vars(BreathingSecond)

\* ------------------------------------------------------ stretching exercise
\* A second of the interval of startTimer: the time left loses one; the
\* effect on [timeLeft] at 0 clears the interval and calls handleNext, or
\* handleFinish on the last stretch.
StretchSecond ==
    /\ isStretchingExerciseOpen
    /\ IF timeLeft - 1 > 0
       THEN /\ timeLeft' = timeLeft - 1
            /\ lastOp' = [op |-> "stretchSecond"]
            /\ UNCHANGED <<currentStretchIndex, currentStretchDuration, coachVars,
                           feedbackVars, listenerVars, calibration, detectorVars, remainingTime,
                           breakVars>>
       ELSE IF currentStretchIndex < totalStretches - 1
            THEN /\ startTimer(nextStretchIndex(currentStretchIndex))
                 /\ lastOp' = [op |-> "stretchSecond"]
                 /\ UNCHANGED <<coachVars, feedbackVars, listenerVars, calibration, detectorVars,
                                remainingTime, breakVars>>
            ELSE handleStretchingEnd(TRUE, "interval")

\* A suggestion is raised and taken as a stretching exercise, which the user
\* steps through, lets run, finishes or skips.
NextStretching ==
    \/ Sample(90 * Scale, TRUE)
    \/ \E i \in 1..MaxInFlight : ResolveFetch(i, "ok")
    \/ TakeBreakClick
    \/ SelectBreak("stretching")
    \/ StretchSecond
    \/ HandleNext
    \/ HandlePrevious
    \/ \E completed \in BOOLEAN : StretchingEnd(completed)
    \/ FeedbackClose
    \/ Tick

SpecStretching == Init /\ [][NextStretching]_vars

\* ---------------------------------------------------------- webcam detector
\* A failed analysis reported as a present user.
PoseDataOf_FailedIsActive(outcome, stressLevel, faceDetected) ==
    IF outcome = "ok"
    THEN [stressLevel |-> stressLevel, isUserActive |-> faceDetected]
    ELSE [stressLevel |-> 0, isUserActive |-> TRUE]

\* What captureAndAnalyze hands to onPoseData when analyze_frame ends with
\* outcome, its data being stressLevel and faceDetected.
PoseDataOf(outcome, stressLevel, faceDetected) ==
    IF outcome = "ok"
    THEN [stressLevel |-> stressLevel, isUserActive |-> faceDetected]
    ELSE [stressLevel |-> 0, isUserActive |-> FALSE]

\* The interval of the detector fires: captureAndAnalyze takes a screenshot
\* and sends it to analyze_frame, whatever is still awaited.
CaptureFrame ==
    /\ framesCaptured < MaxFrames
    /\ framesCaptured' = framesCaptured + 1
    /\ analysesInFlight' = analysesInFlight \cup {framesCaptured + 1}
    /\ lastOp' = [op |-> "captureFrame"]
    /\ UNCHANGED <<lastDelivered, coachVars, feedbackVars, listenerVars, calibration,
                   remainingTime, stretchingVars, breakVars>>

\* analyze_frame ends for a frame and captureAndAnalyze resumes: onPoseData.
AnalysisArrives(frame, outcome, stressLevel, faceDetected) ==
    /\ frame \in analysesInFlight
    /\ analysesInFlight' = analysesInFlight \ {frame}
    /\ lastDelivered' = [frame |-> frame, failed |-> outcome # "ok"]
    /\ LET data == PoseDataOf(outcome, stressLevel, faceDetected)
       IN  DoublePoseData(data.stressLevel, data.isUserActive)
    /\ UNCHANGED <<framesCaptured, coachVars, feedbackVars, listenerVars, calibration,
                   remainingTime, stretchingVars>>

\* The detector with the camera ready, the backend answering each frame at
\* its own time, the coaching fetches resolving.
NextDetector ==
    \/ CaptureFrame
    \/ \E frame \in 1..MaxFrames, outcome \in AnalysisOutcomes,
          stressLevel \in AnalysisLevels, faceDetected \in BOOLEAN :
          AnalysisArrives(frame, outcome, stressLevel, faceDetected)
    \/ \E i \in 1..MaxInFlight : ResolveFetch(i, "ok")

SpecDetector == InitDouble /\ [][NextDetector]_vars

\* ------------------------------------------------------ posture calibration
\* The timeouts of startPositioning not yet fired.
PendingTimeouts(c) == SumTo(c.timeouts, PositioningSeconds)

\* setStep(step) and the effects on [step] that follow the render: entering
\* 'holding' restarts the countdown; the interval runs only while holding.
setStep(c, step) ==
    IF step = "holding" /\ c.step # "holding"
    THEN [c EXCEPT !.step = step, !.countdown = CALIBRATION_HOLD_DURATION]
    ELSE [c EXCEPT !.step = step]

\* The callback of the setTimeout of startPositioning.
positioningTimeout(c) == setStep(c, "holding")

\* The updater of the one-second interval.
holdInterval(c) ==
    IF c.countdown <= 1
    THEN [setStep(c, "capturing") EXCEPT !.countdown = 0]
    ELSE [c EXCEPT !.countdown = c.countdown - 1]

\* 'Start Calibration': startPositioning().
StartPositioning ==
    /\ calibration.step = "initial"
    /\ PendingTimeouts(calibration) < MaxTimeouts
    /\ calibration' =
           [setStep(calibration, "positioning") EXCEPT
               !.timeouts[PositioningSeconds] = @ + 1]
    /\ lastOp' = [op |-> "startPositioning"]
    /\ UNCHANGED <<coachVars, feedbackVars, listenerVars, remainingTime, stretchingVars,
                   detectorVars, breakVars>>

\* A timeout of startPositioning is due and fires.
PositioningTimeout ==
    /\ calibration.timeouts[0] > 0
    /\ calibration' =
           [positioningTimeout(calibration) EXCEPT !.timeouts[0] = @ - 1]
    /\ lastOp' = [op |-> "positioningTimeout"]
    /\ UNCHANGED <<coachVars, feedbackVars, listenerVars, remainingTime, stretchingVars,
                   detectorVars, breakVars>>

\* One second passes: pending timeouts come a second closer, and the
\* interval of the hold, if it runs, calls its updater.
CalibrationSecond ==
    /\ calibration.timeouts[0] = 0
    /\ calibration.step = "holding" \/ PendingTimeouts(calibration) > 0
    /\ LET c == IF calibration.step = "holding" THEN holdInterval(calibration)
                ELSE calibration
       IN  calibration' =
              [c EXCEPT !.timeouts =
                  [r \in 0..PositioningSeconds |->
                      IF r < PositioningSeconds THEN c.timeouts[r + 1] ELSE 0]]
    /\ lastOp' = [op |-> "calibrationSecond"]
    /\ UNCHANGED <<coachVars, feedbackVars, listenerVars, remainingTime, stretchingVars,
                   detectorVars, breakVars>>

\* The effect of step 'capturing'; saved: localStorage.setItem returned.
CaptureEffect(saved) ==
    /\ calibration.step = "capturing"
    /\ calibration' = setStep(calibration, IF saved THEN "complete" ELSE "error")
    /\ lastOp' = [op |-> "captureEffect"]
    /\ UNCHANGED <<coachVars, feedbackVars, listenerVars, remainingTime, stretchingVars,
                   detectorVars, breakVars>>

\* handleWebcamError, the onError handed to the WebcamDetector that is
\* rendered during the active steps.
HandleWebcamError ==
    /\ calibration.step \in {"positioning", "holding", "capturing"}
    /\ calibration' = setStep(calibration, "error")
    /\ lastOp' = [op |-> "handleWebcamError"]
    /\ UNCHANGED <<coachVars, feedbackVars, listenerVars, remainingTime, stretchingVars,
                   detectorVars, breakVars>>

\* 'Recalibrate' (shown when complete) and 'Try Again' (shown on error).
Recalibrate ==
    /\ calibration.step \in {"complete", "error"}
    /\ calibration' = setStep(calibration, "initial")
    /\ lastOp' = [op |-> "recalibrate"]
    /\ UNCHANGED <<coachVars, feedbackVars, listenerVars, remainingTime, stretchingVars,
                   detectorVars, breakVars>>

NextCalibration ==
    \/ StartPositioning
    \/ PositioningTimeout
    \/ CalibrationSecond
    \/ \E saved \in BOOLEAN : CaptureEffect(saved)
    \/ HandleWebcamError
    \/ Recalibrate

SpecCalibration == Init /\ [][NextCalibration]_vars

\* The page loads for a user with any of the stored models.
InitPreference ==
    /\ InitApp
    /\ preferenceModel \in PreferenceModels

\* The application of Spec for a returning user.
SpecPreference == InitPreference /\ [][Next]_vars

\* ================================================================== claims
\* No suggestion session exists: nothing shown, nothing pending, no break
\* dialog and no feedback exchange open.
Idle ==
    /\ ~breakSuggestionActive
    /\ ~isFetchingCoachingMessage
    /\ pending = <<>>
    /\ ~isBreakSelectionOpen
    /\ ~isBreathingExerciseOpen
    /\ ~isStretchingExerciseOpen
    /\ ~isPuzzleBreakOpen
    /\ ~isFeedbackChatOpen

\* The trigger condition, read in the state after a step.
TriggerConditionAfter ==
    /\ isUserActive'
    /\ currentStressLevel' > STRESS_THRESHOLD * Scale
    /\ \/ lastBreakTimestamp' = NoTimestamp
       \/ (now' - lastBreakTimestamp') * TickMs > MIN_BREAK_INTERVAL_MS

\* The step started a coaching fetch.
FetchStarted == Len(pending') = Len(pending) + 1

\* C1: a non-forced showBreakSuggestion() issued while an earlier coaching
\* fetch is still in flight is a no-op: no second variant is selected and no
\* second fetch starts, so the loading state is left as it was.
C1_NonForcedCallWhilePendingIsNoOp ==
    [][(lastOp'.op = "sample" /\ pending # <<>>)
         => /\ pending' = pending
            /\ UNCHANGED <<isFetchingCoachingMessage, dynamicCoachingMessage>>]_vars

\* C2: showBreakSuggestion(true) while a suggestion is pending or active is
\* ignored: the store and the outstanding fetches stay as they were.
C2_ForcedCallWhileBusyIsIgnored ==
    [][(lastOp'.op = "force" /\ (breakSuggestionActive \/ pending # <<>>))
         => /\ pending' = pending
            /\ UNCHANGED storeVars]_vars

\* C3: the result of a coaching fetch whose session ended while it was in
\* flight is discarded: it changes neither breakSuggestionActive nor
\* currentBreakSuggestion nor dynamicCoachingMessage.
C3_StaleFetchResultDiscarded ==
    [][(lastOp'.op = "resolve" /\ lastOp'.stale)
         => UNCHANGED <<breakSuggestionActive, currentBreakSuggestion,
                        dynamicCoachingMessage>>]_vars

\* C4: after dismissBreakSuggestion(c) at time t no suggestion is raised by
\* the non-forced path before t + max(c minutes, 15 minutes).
C4_NoRaiseBeforeDismissCooldown ==
    (lastOp.op = "sample" /\ lastOp.raised) => cooldownUntil = 0

\* C5: after a session ends (dismissed, break completed or break skipped) at
\* time t no suggestion is raised by the non-forced path before t + 15 minutes.
C5_NoRaiseWithinIntervalOfSessionEnd ==
    (lastOp.op = "sample" /\ lastOp.raised) => sessionRestUntil = 0

\* C6: a non-forced showBreakSuggestion() starts a suggestion only if, in the
\* state it reads, the user is active, the smoothed level is above 21 and no
\* break was recorded or more than 15 minutes have passed since; when one of
\* these fails the call changes nothing.
C6_NormalTriggerCondition ==
    [][lastOp'.op = "sample"
         => /\ FetchStarted => TriggerConditionAfter
            /\ ~TriggerConditionAfter
                 => /\ pending' = pending
                    /\ UNCHANGED <<lastBreakTimestamp, breakSuggestionActive,
                                   currentBreakSuggestion, dynamicCoachingMessage,
                                   isFetchingCoachingMessage, isFeedbackChatOpen,
                                   feedbackChatHistory, isFeedbackLoading,
                                   appVars>>]_vars

\* C6 witness: a sample raised a suggestion after an earlier break, once the
\* interval had passed.
C6_Witness ==
    /\ lastOp.op = "sample"
    /\ lastOp.raised
    /\ isUserActive
    /\ currentStressLevel > STRESS_THRESHOLD * Scale
    /\ lastBreakTimestamp # NoTimestamp
    /\ isFetchingCoachingMessage

\* C7: every sample ingested while Idle re-evaluates the trigger: when after
\* the sample the user is present, the level is above 21 and the cooldown has
\* elapsed, a suggestion is raised by that sample.
C7_EverySampleReevaluates ==
    [][(lastOp'.op = "sample" /\ Idle /\ TriggerConditionAfter)
         => FetchStarted]_vars

C9_InvalidCommandIsNoOp ==
    [][(lastOp'.op = "puzzleEnd" /\ ~breakSuggestionActive
                                 /\ ~isFetchingCoachingMessage)
         => UNCHANGED lastBreakTimestamp]_vars

\* C10: whenever breakSuggestionActive is true, currentBreakSuggestion is an
\* entry of the catalog and dynamicCoachingMessage is a message.
C10_ActiveSuggestionHasVariantAndMessage ==
    breakSuggestionActive
        => /\ currentBreakSuggestion \in BreakIds
           /\ dynamicCoachingMessage # Null

\* A break activity of an accepted session is on screen.
BreakActive ==
    isBreathingExerciseOpen \/ isStretchingExerciseOpen \/ isPuzzleBreakOpen

\* C11: isFetchingCoachingMessage is true in exactly the states in which a
\* coaching fetch is in flight.
C11_PendingFlagTracksFetch ==
    isFetchingCoachingMessage <=> pending # <<>>

\* C12: while a break activity of an accepted session is running, no sample
\* raises a new suggestion through the non-forced path.
C12_NoRaiseWhileBreakActive ==
    [][(lastOp'.op = "sample" /\ BreakActive) => ~FetchStarted]_vars

\* ---- the smoother under recorded sample streams
\* Sum over k = 1..n of alpha * (1 - alpha)^(Len(s) - k) * s[k].raw, times
\* SmoothingDen^Len(s): the closed-form moving average of s from a start of 0.
RECURSIVE ClosedFormSum(_, _)
ClosedFormSum(s, n) ==
    IF n = 0 THEN 0
    ELSE SmoothingNum * s[n].raw
             * Pow(SmoothingDen - SmoothingNum, Len(s) - n)
             * Pow(SmoothingDen, n - 1)
         + ClosedFormSum(s, n - 1)

\* Every sample of s reports this raw level with the user present.
Sustained(s, level) ==
    \A k \in DOMAIN s : s[k] = [raw |-> level * Scale, active |-> TRUE]

\* The closed-form moving average of the unscaled samples s, as the double
\* nearest to it.
ClosedFormDouble(s) ==
    DoubleOfRatio(ClosedFormSum(s, Len(s)), Pow(SmoothingDen, Len(s)))

\* C13: after the n-th sample currentStressLevel is exactly the closed-form
\* exponential moving average of the n raw samples with alpha = 0.1: the
\* double that the code holds is the double of that average.
C13_LevelIsClosedFormEma ==
    Len(samples) < MaxSamples => currentStressLevel = ClosedFormDouble(samples)

\* C14: the first sample sets the smoothed value to the raw value itself.
C14_FirstSampleInitializes ==
    Len(samples) = 1 => currentStressLevel = samples[1].raw

\* C15: with the user present and raw 90 sustained from the initial store the
\* smoothed values are 9, 17.1, 24.39; samples 1 and 2 raise nothing and
\* sample 3 starts the coaching fetch.
C15_Sustained90TriggersOnThirdSample ==
    [][(lastOp'.op = "sample" /\ Sustained(samples', 90))
         => /\ Len(samples') = 1
                 => currentStressLevel' = 9 * Scale /\ ~FetchStarted
            /\ Len(samples') = 2
                 => currentStressLevel' = (171 * Scale) \div 10 /\ ~FetchStarted
            /\ Len(samples') = 3
                 => /\ currentStressLevel' = (2439 * Scale) \div 100
                    /\ FetchStarted
                    /\ isFetchingCoachingMessage']_vars

\* C15 witness: the third sustained sample has just started the fetch.
C15_Witness ==
    /\ Len(samples) = 3
    /\ Sustained(samples, 90)
    /\ lastOp.op = "sample"
    /\ lastOp.raised
    /\ Len(pending) = 1

\* C16: under a stream whose raw samples are all at most 21 the smoothed
\* value stays within the range spanned by 0 and the samples, so it never
\* exceeds 21, and no suggestion is raised.
C16_LowStreamNeverRaises ==
    (\A r \in DoubleLevels : r <= STRESS_THRESHOLD)
        => /\ ~FGreater(currentStressLevel, DoubleOfInt(STRESS_THRESHOLD))
           /\ pending = <<>>
           /\ ~isFetchingCoachingMessage
           /\ ~breakSuggestionActive

\* C17: from Idle, showBreakSuggestion(true) starts a suggestion whatever the
\* level, the presence flag and the time since the last break are: a catalog
\* entry is selected and the coaching fetch starts, and when that fetch ends
\* the suggestion is active with the selected entry and the fetched message
\* or, on failure, the entry's description.
C17_ForcedTriggerRaisesFromIdle ==
    [][/\ (lastOp'.op = "force" /\ Idle)
            => /\ FetchStarted
               /\ isFetchingCoachingMessage'
               /\ pending'[Len(pending')].sel \in BreakIds
       /\ (lastOp'.op = "resolve" /\ lastOp'.forced)
            => /\ breakSuggestionActive'
               /\ currentBreakSuggestion' = lastOp'.sel
               /\ dynamicCoachingMessage' =
                      IF lastOp'.outcome = "ok" THEN CoachingText
                                                ELSE Description(lastOp'.sel)]_vars

\* C17 witness: a forced suggestion became active through the fallback with
\* the level at 0 and the user absent.
C17_Witness ==
    /\ lastOp.op = "resolve"
    /\ lastOp.forced
    /\ lastOp.outcome = "noToken"
    /\ breakSuggestionActive
    /\ currentStressLevel = 0
    /\ ~isUserActive

\* After the step, the break dialog of the activity a handler belongs to is open.
ActivityOpenAfter(op) ==
    \/ op = "breathingEnd" /\ isBreathingExerciseOpen'
    \/ op = "stretchingEnd" /\ isStretchingExerciseOpen'
    \/ op = "puzzleEnd" /\ isPuzzleBreakOpen'

\* C20: a break activity that ends as completed or skipped closes its dialog
\* and opens the feedback chat with a single assistant prompt.
C20_BreakEndEntersAwaitingFeedback ==
    [][lastOp'.op \in {"breathingEnd", "stretchingEnd", "puzzleEnd"}
         => /\ ~ActivityOpenAfter(lastOp'.op)
            /\ isFeedbackChatOpen'
            /\ Len(feedbackChatHistory') = 1
            /\ feedbackChatHistory'[1].role = "assistant"]_vars

\* ---- the adaptive selection the spec describes, as a yardstick
\* The mean a variant counts with: untried variants take the optimistic
\* default, which is the initial mean 0.
EffectiveMean(score) == IF score.tries = 0 THEN 0 ELSE score.mean

\* choose with epsilon = 0: the variants of the highest mean.
BestVariants(model) ==
    {v \in BreakIds :
        \A w \in BreakIds : EffectiveMean(model[v]) >= EffectiveMean(model[w])}

\* Reward of an outcome without sentiment, in hundredths: Completed +1,
\* Skipped -0.5.
Reward(completed) == IF completed THEN 100 ELSE -50

\* The incremental mean: mean' = mean + (reward - mean) / (tries + 1).
Record(model, variant, reward) ==
    [model EXCEPT ![variant] =
        Score(@.mean + (reward - @.mean) \div (@.tries + 1), @.tries + 1)]

\* The catalog entry a break activity performs.
PerformedVariant(op) ==
    CASE op = "breathingEnd" -> "breathing"
      [] op = "stretchingEnd" -> "stretch"
      [] op = "puzzleEnd" -> "puzzle"

\* C18: the variant selected when a suggestion is raised is one of the
\* highest mean in the user's PreferenceModel.
C18_SelectedVariantHasHighestMean ==
    [][FetchStarted
         => pending'[Len(pending')].sel \in BestVariants(preferenceModel)]_vars

\* C19: each Completed or Skipped outcome is recorded as one preference
\* update of the performed variant by the incremental mean.
C19_OutcomeUpdatesPreference ==
    [][lastOp'.op \in {"breathingEnd", "stretchingEnd", "puzzleEnd"}
         => preferenceModel' =
                Record(preferenceModel, PerformedVariant(lastOp'.op),
                       Reward(lastOp'.completed))]_vars

\* ---- the break dialogs
\* The break activities whose dialog is open.
OpenActivities ==
    {a \in BreakChoice :
        \/ a = "breathing" /\ isBreathingExerciseOpen
        \/ a = "stretching" /\ isStretchingExerciseOpen
        \/ a = "puzzle" /\ isPuzzleBreakOpen}

\* C21: in every reachable state at most one break activity (breathing,
\* stretching or puzzle dialog) is open, and a choice in the selection dialog
\* leaves exactly one open.
C21_AtMostOneBreakActivity ==
    /\ Cardinality(OpenActivities) <= 1
    /\ lastOp.op = "select" => Cardinality(OpenActivities) = 1

\* ---- the companion chat
\* C22: the sentiment returned for a turn is attached only to the user
\* message that started that turn: every message that carries a sentiment is
\* the user message of the turn the sentiment was computed for.
C22_SentimentOnlyOnInitiatingMessage ==
    \A i \in DOMAIN coachMessages :
        coachMessages[i].sentiment # 0
            => /\ coachMessages[i].role = "user"
               /\ coachMessages[i].sentiment = coachMessages[i].turn

\* ---- the effect of ending a suggestion
\* The suggestion fields are those of a store without a suggestion, and the
\* last break is dated t.
SuggestionClearedAt(s, t) ==
    /\ ~s.breakSuggestionActive
    /\ s.currentBreakSuggestion = Null
    /\ s.dynamicCoachingMessage = Null
    /\ ~s.isFetchingCoachingMessage
    /\ s.lastBreakTimestamp = t

\* C23: dismissBreakSuggestion on an active suggestion ('Take Break', which
\* calls nothing else of the store) leaves breakSuggestionActive false,
\* currentBreakSuggestion and dynamicCoachingMessage null,
\* isFetchingCoachingMessage false and lastBreakTimestamp at the time of the
\* call, and changes neither the smoothed level, the presence flag nor any
\* chat state; recordBreakTaken would have had the identical effect, and has
\* it where PuzzleBreak calls it.
C23_DismissClearsSuggestionAndDatesBreak ==
    [][/\ lastOp'.op = "takeBreak"
           => /\ breakSuggestionActive
              /\ SuggestionClearedAt(Store', now)
              /\ UNCHANGED <<currentStressLevel, isUserActive, isFeedbackChatOpen,
                             feedbackChatHistory, isFeedbackLoading, coachVars>>
              /\ Store' = recordBreakTaken(Store, now)
       /\ lastOp'.op \in {"dismiss", "puzzleEnd"}
           => /\ SuggestionClearedAt(Store', now)
              /\ UNCHANGED <<currentStressLevel, isUserActive, coachVars>>]_vars

\* C23 witness: 'Take Break' was pressed on a suggestion that was showing
\* while a feedback exchange was open, with the user present and the level
\* above the threshold.
C23_Witness ==
    /\ lastOp.op = "takeBreak"
    /\ lastBreakTimestamp = now
    /\ isFeedbackChatOpen
    /\ feedbackChatHistory # <<>>
    /\ isUserActive
    /\ currentStressLevel > STRESS_THRESHOLD * Scale

\* ---- who writes what
\* C24: a sample changes nothing of the store but currentStressLevel and
\* isUserActive, and the loading fields where its showBreakSuggestion call is
\* taken; showBreakSuggestion, forced or not, at its start and at its end,
\* changes neither currentStressLevel, isUserActive nor lastBreakTimestamp;
\* currentStressLevel changes only on a sample; lastBreakTimestamp changes
\* only in dismissBreakSuggestion and recordBreakTaken, and never decreases.
C24_SmootherAndCooldownHaveOneWriter ==
    [][/\ lastOp'.op = "sample"
           => /\ UNCHANGED <<lastBreakTimestamp, breakSuggestionActive,
                             currentBreakSuggestion, isFeedbackChatOpen,
                             feedbackChatHistory, isFeedbackLoading>>
              /\ ~lastOp'.raised
                   => UNCHANGED <<isFetchingCoachingMessage, dynamicCoachingMessage>>
       /\ lastOp'.op \in {"force", "resolve"}
           => UNCHANGED <<currentStressLevel, isUserActive, lastBreakTimestamp>>
       /\ currentStressLevel' # currentStressLevel => lastOp'.op = "sample"
       /\ lastBreakTimestamp' # lastBreakTimestamp
           => /\ lastOp'.op \in {"dismiss", "takeBreak", "puzzleEnd"}
              /\ lastBreakTimestamp' > lastBreakTimestamp]_vars

\* C24 witness: a forced showBreakSuggestion call has ended some time after a
\* dismissal, with a smoothed level and with the user present.
C24_Witness ==
    /\ lastOp.op = "resolve"
    /\ lastOp.forced
    /\ lastBreakTimestamp # NoTimestamp
    /\ lastBreakTimestamp < now
    /\ currentStressLevel > 0
    /\ isUserActive

\* ---- clearing a suggestion
\* A suggestion is showing or being prepared.
SuggestionActiveOrPending == breakSuggestionActive \/ isFetchingCoachingMessage

\* C25: whenever a handler clears an active or pending suggestion, through
\* dismissBreakSuggestion, recordBreakTaken or openFeedbackChat, the cooldown
\* starts at that moment: lastBreakTimestamp becomes the time of the call, so
\* that the samples of the next 15 minutes find the interval not elapsed.
C25_ClearingStartsCooldown ==
    [][(/\ SuggestionActiveOrPending
        /\ lastOp'.op \in {"dismiss", "takeBreak", "breathingEnd",
                            "stretchingEnd", "puzzleEnd"})
         => /\ ~SuggestionActiveOrPending'
            /\ lastBreakTimestamp' = now
            /\ ~IntervalElapsed(lastBreakTimestamp', now)]_vars

\* ---- the feedback exchange
\* s continues r: r followed by zero or more messages.
IsPrefix(r, s) == Len(r) <= Len(s) /\ SubSeq(s, 1, Len(r)) = r

C27_ReplyJoinsItsOwnExchange ==
    [][lastOp'.op = "feedbackReply"
         => \/ feedbackChatHistory' = feedbackChatHistory
            \/ /\ isFeedbackChatOpen
               /\ IsPrefix(lastOp'.apiMessages, feedbackChatHistory)]_vars

\* C28: at most one feedback_chat request is in flight, and isFeedbackLoading
\* is true whenever one is.
C28_OneFeedbackRequestInFlight ==
    /\ Cardinality(feedbackRequests) <= 1
    /\ feedbackRequests # {} => isFeedbackLoading

\* The handle a store keeps for the listener of collection c.
Handle(c) ==
    CASE c = "memories" -> memoryStore.unsubscribe
      [] c = "habits"   -> companionStore.habitListenerUnsubscribe
      [] c = "moods"    -> companionStore.moodListenerUnsubscribe

\* The collection a subscribe or unsubscribe call works on.
CollectionOf(op) ==
    CASE op \in {"subscribeToMemories", "unsubscribeFromMemories"}       -> "memories"
      [] op \in {"subscribeToHabits", "unsubscribeFromHabits"}           -> "habits"
      [] op \in {"subscribeToMoodEntries", "unsubscribeFromMoodEntries"} -> "moods"

\* The calls that subscribe or unsubscribe.
SubscriptionOps ==
    {"subscribeToMemories", "unsubscribeFromMemories", "subscribeToHabits",
     "unsubscribeFromHabits", "subscribeToMoodEntries", "unsubscribeFromMoodEntries"}

C30_LoadingOnlyWhileListenerPending ==
    /\ memoryStore.isLoading
          => \E l \in firestoreListeners["memories"] : ~l.delivered
    /\ memoryStore.error => ~memoryStore.isLoading

\* The steps the calibration may take.
CalibrationSteps ==
    {<<"initial", "positioning">>, <<"positioning", "holding">>,
     <<"holding", "capturing">>, <<"capturing", "complete">>,
     <<"positioning", "error">>, <<"holding", "error">>, <<"capturing", "error">>,
     <<"complete", "initial">>, <<"error", "initial">>}

C32_BreathingCountsDownAndClosesOnce ==
    /\ [](isBreathingExerciseOpen => remainingTime \in 1..durationSeconds)
    /\ [][ /\ (~isBreathingExerciseOpen /\ isBreathingExerciseOpen')
                => remainingTime' = durationSeconds
           /\ (isBreathingExerciseOpen /\ lastOp'.op = "breathingSecond")
                => /\ remainingTime' = remainingTime - 1
                   /\ remainingTime' >= 1
                   /\ isBreathingExerciseOpen'
           /\ (isBreathingExerciseOpen /\ isBreathingExerciseOpen'
                 /\ lastOp'.op # "breathingSecond")
                => remainingTime' = remainingTime
           /\ (isBreathingExerciseOpen /\ ~isBreathingExerciseOpen')
                => /\ lastOp'.op = "breathingEnd"
                   /\ isFeedbackChatOpen'
                   /\ feedbackChatHistory' =
                         <<AssistantMessage(IF lastOp'.completed
                                            THEN "breathing completed"
                                            ELSE "breathing skipped")>>
                   /\ lastOp'.by = "interval"
                         => remainingTime = 1 /\ lastOp'.completed
           /\ (lastOp'.op = "breathingEnd" /\ lastOp' # lastOp)
                => isBreathingExerciseOpen /\ ~isBreathingExerciseOpen'
         ]_vars
    /\ (isBreathingExerciseOpen ~> ~isBreathingExerciseOpen)

\* The countdown ran from durationSeconds to its last second and completed
\* the exercise by itself.
C32_Witness ==
    /\ lastOp = [op |-> "breathingEnd", completed |-> TRUE, by |-> "interval"]
    /\ ~isBreathingExerciseOpen
    /\ isFeedbackChatOpen
    /\ remainingTime = durationSeconds

\* C33: the stretch index stays within 0..2 and, while the dialog is open,
\* moves by one; every move restarts the timer at the duration of the stretch
\* moved to; a timer reaching 0 moves to the next stretch, or on the last
\* stretch ends the exercise as completed; the exercise ends as completed
\* only on the last stretch, through one closing that opens the feedback chat
\* with one message; Previous on the first stretch changes nothing; a closed
\* dialog is back at the first stretch with its full duration.
C33_StretchesStepInOrder ==
    /\ [](/\ currentStretchIndex \in 0..(totalStretches - 1)
          /\ isStretchingExerciseOpen
                => timeLeft \in 1..stretches[currentStretchIndex].duration
          /\ currentStretchDuration = stretches[currentStretchIndex].duration
          /\ ~isStretchingExerciseOpen
                => currentStretchIndex = 0 /\ timeLeft = stretches[0].duration)
    /\ [][ /\ (isStretchingExerciseOpen' /\ currentStretchIndex' # currentStretchIndex)
                => /\ isStretchingExerciseOpen
                   /\ currentStretchIndex' \in
                         {currentStretchIndex - 1, currentStretchIndex + 1}
                   /\ timeLeft' = stretches[currentStretchIndex'].duration
           /\ (isStretchingExerciseOpen /\ lastOp'.op = "stretchSecond")
                => IF timeLeft > 1
                   THEN /\ timeLeft' = timeLeft - 1
                        /\ currentStretchIndex' = currentStretchIndex
                   ELSE currentStretchIndex' = currentStretchIndex + 1
           /\ (isStretchingExerciseOpen /\ lastOp'.op = "stretchPrevious"
                 /\ currentStretchIndex = 0)
                => UNCHANGED <<stretchingVars, isStretchingExerciseOpen>>
           /\ (isStretchingExerciseOpen /\ ~isStretchingExerciseOpen')
                => /\ lastOp'.op = "stretchingEnd"
                   /\ isFeedbackChatOpen'
                   /\ feedbackChatHistory' =
                         <<AssistantMessage(IF lastOp'.completed
                                            THEN "stretches completed"
                                            ELSE "stretching skipped")>>
                   /\ lastOp'.completed
                         => currentStretchIndex = totalStretches - 1
                   /\ lastOp'.by = "interval"
                         => timeLeft = 1 /\ lastOp'.completed
           /\ (lastOp'.op = "stretchingEnd" /\ lastOp' # lastOp)
                => isStretchingExerciseOpen /\ ~isStretchingExerciseOpen'
         ]_vars

\* The timers of the three stretches ran out one after the other and the
\* last one ended the exercise as completed.
C33_Witness ==
    /\ lastOp = [op |-> "stretchingEnd", completed |-> TRUE, by |-> "interval"]
    /\ ~isStretchingExerciseOpen
    /\ isFeedbackChatOpen
    /\ currentStretchIndex = 0

\* C34: the results of analyze_frame reach onPoseData in the order in which
\* their frames were captured: the frame delivered is never older than the
\* one delivered before it.
C34_ResultsAppliedInCaptureOrder ==
    [][lastDelivered'.frame >= lastDelivered.frame]_vars

\* C35: a failed analysis is ingested as the sample (0, false): the user is
\* marked absent, the smoothed level becomes 0.9 times what it was, and the
\* evaluation that follows raises nothing: no coaching fetch starts and no
\* suggestion becomes active.
C35_FailedFrameDecaysAndNeverRaises ==
    [][(lastDelivered' # lastDelivered /\ lastDelivered'.failed)
          => /\ ~isUserActive'
             /\ currentStressLevel' =
                   FMul(DoubleOfRatio(9, 10), currentStressLevel)
             /\ lastOp' = [op |-> "sample", raised |-> FALSE]
             /\ pending' = pending
             /\ isFetchingCoachingMessage' = isFetchingCoachingMessage
             /\ breakSuggestionActive' = breakSuggestionActive]_vars

\* A failed analysis arrived while the smoothed level was above the
\* threshold and the user had been present, and the level decayed.
C35_Witness ==
    /\ lastDelivered.failed
    /\ lastOp = [op |-> "sample", raised |-> FALSE]
    /\ ~isUserActive
    /\ FGreater(currentStressLevel, DoubleOfInt(STRESS_THRESHOLD))
    /\ Len(samples) >= 2
    /\ samples[Len(samples) - 1].active
    /\ samples[Len(samples)] = [raw |-> 0, active |-> FALSE]
====
